---- MODULE Spec2Model ----
(***************************************************************************)
(* itchatmp/components/register.py: the handler registry (msg_register,    *)
(* get_reply_fn), the dispatch pipeline (post_fn, verify_message,          *)
(* verify_reply) and the deadline race of both server bindings             *)
(* (construct_handler with isWsgi = True / False).                         *)
(***************************************************************************)
EXTENDS Integers, Sequences, FiniteSets, TLC

(* ------------------------------ bounds --------------------------------- *)
\* number of POST requests one handler slot serves one after another
MaxRequests == 2
\* longest tag list handed to msg_register
MaxTags == 2
\* number of msg_register calls followed in the registration phase
MaxRegs == 3
\* the worker-pool size a core starts with
DefaultPool == 5

(* --------------------------- content values ---------------------------- *)
NORMAL == "normal"
COMPATIBLE == "compatible"
SAFE == "safe"
EncryptModes == {NORMAL, COMPATIBLE, SAFE}

\* inbound tags a handler may be registered for, and one tag outside them
INCOME_MSG == {"text", "image", "event"}
Bogus == "bogus"
AllTags == INCOME_MSG \cup {Bogus}
\* outbound-allowed reply types
OUTCOME_MSG == {"text", "image", "news"}

\* user handlers; NoOp is the "lambda x: None" default of get_reply_fn
Handlers == {"h1", "h2"}
NoOp == "noop"
NoFn == "none"

(* ------------------------------ values --------------------------------- *)
\* Python values are tagged records so that None, mappings and bodies are
\* comparable with each other.
None == [tag |-> "None"]
Junk == [tag |-> "junk"]                         \* a handler result that is no mapping
ErrValue == [tag |-> "err", errmsg |-> "bad reply"] \* falsy result of reply_msg_format
Empty == [tag |-> "empty"]                       \* an HTTP body of zero bytes
ErrorPage == [tag |-> "500"]                     \* the framework's error response

Absent == "-"                                    \* key not present in a mapping
EmptyDict == [MsgType |-> Absent, FromUserName |-> Absent,
              ToUserName |-> Absent, Encrypt |-> Absent]
IsEmptyDict(d) == d = EmptyDict

User == "user"
Account == "mp"
Other == "other"

ReplyDict(t, to, from) ==
    [tag |-> "dict", MsgType |-> t, ToUserName |-> to, FromUserName |-> from]

\* Python truthiness of a handler result after reply_msg_format
Truthy(v) == v.tag = "dict"

(* ------------------------------ registry ------------------------------- *)
\* _msg_register body: bind the tags of the list one by one, raise at the
\* first tag that is not in INCOME_MSG (tags before it stay bound).
\* RegisterLoop without the membership test of line 199
RECURSIVE RegisterLoopUnchecked(_, _, _)
RegisterLoopUnchecked(dict, msgTypeList, fn) ==
    IF msgTypeList = <<>> THEN [dict |-> dict, raised |-> FALSE]
    ELSE RegisterLoopUnchecked([dict EXCEPT ![Head(msgTypeList)] = fn],
                               Tail(msgTypeList), fn)

RECURSIVE RegisterLoop(_, _, _)
RegisterLoop(dict, msgTypeList, fn) ==
    IF msgTypeList = <<>> THEN [dict |-> dict, raised |-> FALSE]
    ELSE LET t == Head(msgTypeList) IN
         IF t \in INCOME_MSG
         THEN RegisterLoop([dict EXCEPT ![t] = fn], Tail(msgTypeList), fn)
         ELSE [dict |-> dict, raised |-> TRUE]

\* msgType is a list, or a single tag that is wrapped into a list
MsgTypeList(msgType) ==
    IF msgType.isList THEN msgType.tags ELSE <<msgType.tag>>

msg_register(dict, msgType, fn) == RegisterLoop(dict, MsgTypeList(msgType), fn)

\* get_reply_fn falling back to a registered handler instead of the no-op
get_reply_fn_AnyDefault(dict, msgType) ==
    IF msgType \in DOMAIN dict /\ dict[msgType] # NoFn THEN dict[msgType]
    ELSE "h1"

\* core._replyFnDict.get(msgType, lambda x: None)
get_reply_fn(dict, msgType) ==
    IF msgType \in DOMAIN dict /\ dict[msgType] # NoFn THEN dict[msgType] ELSE NoOp

\* the keys the mapping holds
Keys(dict) == {t \in DOMAIN dict : dict[t] # NoFn}
EmptyRegistry == [t \in AllTags |-> NoFn]
(* ------------------------- external collaborators ---------------------- *)
\* oauth(timestamp, nonce, signature, token[, Encrypt]): the supplied
\* signature matches the one computed over the token.  A missing query
\* parameter is read as '' (get_argument's default) and never matches.
Good == "good"
Bad == "bad"
oauth(signature) == signature = Good

\* the ciphertext envelope of a message of type t, and its inverse
Cipher(t) == CASE t = "text" -> "c_text" [] t = "image" -> "c_image"
               [] t = "event" -> "c_event" [] OTHER -> "c_bogus"
Plain(c) == CHOOSE t \in AllTags : Cipher(t) = c

\* deconstruct_msg(body): the mapping the request body decodes to.  A plain
\* body carries the message fields, an encrypted body carries only the
\* envelope (and ToUserName), a compatible-mode body carries both.
deconstruct_msg(body) ==
    CASE body.kind = "plain" ->
           [MsgType |-> body.msgType, FromUserName |-> User,
            ToUserName |-> Account, Encrypt |-> Absent]
      [] body.kind = "both" ->
           [MsgType |-> body.msgType, FromUserName |-> User,
            ToUserName |-> Account, Encrypt |-> Cipher(body.msgType)]
      [] OTHER ->
           [MsgType |-> Absent, FromUserName |-> Absent,
            ToUserName |-> Account, Encrypt |-> Cipher(body.msgType)]

\* decrypt_msg(timestamp, nonce, signature, config, msgDict): the fields of
\* the envelope; a mapping without an envelope cannot be decrypted.
decrypt_msg(msgDict) ==
    IF msgDict.Encrypt = Absent THEN EmptyDict
    ELSE [MsgType |-> Plain(msgDict.Encrypt), FromUserName |-> User,
          ToUserName |-> Account, Encrypt |-> Absent]

\* reply_msg_format(reply): a mapping is kept, anything else becomes a falsy
\* error value that carries an errmsg
reply_msg_format(reply) == IF reply.tag = "dict" THEN reply ELSE ErrValue

\* construct_msg / encrypt_msg: the serialized and the encrypted body
construct_msg(reply) == [tag |-> "xml", msg |-> reply]
encrypt_msg(reply) == [tag |-> "enc", msg |-> reply]

(* ------------------------------ pipeline ------------------------------- *)
\* post_fn's results: a returned pair (r, rawReply) or a raised exception
Ret(r, rawReply) == [kind |-> "ret", r |-> r, rawReply |-> rawReply]
Exc(name) == [kind |-> "exc", r |-> None, rawReply |-> [tag |-> name]]
NoResult == [kind |-> "none", r |-> None, rawReply |-> None]

\* the variant is chosen by the presence of msg_signature
IsEncryptedVariant(query) == query.msg_signature # ""
SignatureValid(query) ==
    IF IsEncryptedVariant(query) THEN oauth(query.msg_signature)
    ELSE oauth(query.signature)

\* verify_message without the else branch of lines 98-99
verify_message_NoReject(config, query, msgDict) ==
    IF SignatureValid(query) /\ config.encryptMode = SAFE
    THEN decrypt_msg(msgDict) ELSE msgDict

verify_message(config, query, msgDict) ==
    IF SignatureValid(query)
    THEN IF config.encryptMode = SAFE THEN decrypt_msg(msgDict) ELSE msgDict
    ELSE EmptyDict

\* verify_reply without the OUTCOME_MSG test of line 105
verify_reply_AnyType(config, reply0, msgDict, isActualEncrypt) ==
    LET reply == reply_msg_format(reply0) IN
    IF Truthy(reply)
    THEN LET out == [reply EXCEPT !.ToUserName = msgDict.FromUserName,
                                  !.FromUserName = msgDict.ToUserName] IN
         IF config.encryptMode = SAFE /\ isActualEncrypt
         THEN Exc("NameError")
         ELSE Ret(construct_msg(out), out)
    ELSE Ret(None, None)

\* verify_reply: line 109 reads tns, a name that is bound in verify_message
\* and verify_echostr only, so the encrypting branch raises NameError.
verify_reply(config, reply0, msgDict, isActualEncrypt) ==
    LET reply == reply_msg_format(reply0) IN
    IF Truthy(reply)
    THEN IF reply.MsgType \in OUTCOME_MSG
         THEN LET out == [reply EXCEPT !.ToUserName = msgDict.FromUserName,
                                       !.FromUserName = msgDict.ToUserName] IN
              IF config.encryptMode = SAFE /\ isActualEncrypt
              THEN Exc("NameError")
              ELSE Ret(construct_msg(out), out)
         ELSE Ret(None, None)
    ELSE Ret(None, None)

\* post_fn up to the handler call (lines 39-52): either it returns early or
\* it calls the handler get_reply_fn yields for msgDict['MsgType'].  A
\* mapping without MsgType raises KeyError inside the try block, which is
\* caught (line 53) and ends in "return None, None".  Lines 57-58 are a
\* second else clause of the if of line 39 (the file does not compile as
\* it stands); the function is read without them, both paths of the if
\* ending in the "return None, None" of line 59.
\* the filter test of line 39 with the sense of filter_request inverted
Filtered_Inverted(core, request) == core.filterRequest /\ request.filterPass
Filtered(core, request) == core.filterRequest /\ ~request.filterPass
IsActualEncrypt(request) == deconstruct_msg(request.body).Encrypt # Absent
Verified(core, request) ==
    verify_message(core.config, request.query, deconstruct_msg(request.body))
Dispatches(core, request) ==
    /\ ~Filtered(core, request)
    /\ ~IsEmptyDict(Verified(core, request))
    /\ Verified(core, request).MsgType # Absent
(* ------------------------------- state --------------------------------- *)
VARIABLES
    replyFnDict,   \* core._replyFnDict: tag -> handler (NoFn: key not present)
    lastCall,      \* the latest msg_register call and whether it raised
    lastOk,        \* history: per tag, the handler of the latest call that
                   \* named the tag and returned without raising
    nregs,         \* number of msg_register calls made
    core,          \* core.config, filterRequest, storages, threadPoolNumber
    req,           \* per request slot: the MainHandler instance serving it
    served,        \* number of POST requests accepted
    lastUpdate     \* history: the latest update_config call, its arguments
                   \* and the core it was applied to

vars == <<replyFnDict, lastCall, lastOk, nregs, core, req, served, lastUpdate>>
regVars == <<replyFnDict, lastCall, lastOk, nregs>>
cfgVars == <<core, lastUpdate>>

(* --------------------------- request inputs ---------------------------- *)
Queries ==
    {[msg_signature |-> "", signature |-> Good],
     [msg_signature |-> "", signature |-> Bad],
     [msg_signature |-> Good, signature |-> ""],
     [msg_signature |-> Bad, signature |-> ""],
     [msg_signature |-> "", signature |-> ""]}
Bodies == [kind : {"plain", "both", "enc"}, msgType : {"text", Bogus}]
\* hangs: the registered handler never returns for this message
Requests == [query : Queries, body : Bodies, filterPass : BOOLEAN,
             hangs : BOOLEAN]

\* what a user handler may do with a message: raise, return None, return
\* something that is no mapping, or return a mapping with any MsgType and
\* any addressing
Replies ==
    {None, Junk} \cup
    {ReplyDict(t, to, from) : t \in {"text", Bogus},
                              to \in {User, Other}, from \in {Other}}
HandlerOutcomes(fn) ==
    IF fn = NoOp THEN {[kind |-> "return", reply |-> None]}
    ELSE {[kind |-> "raise", reply |-> None]} \cup
         {[kind |-> "return", reply |-> r] : r \in Replies}

(* ------------------------------ handshake ------------------------------ *)
\* GET requests: echostr is absent (''), a plain string, or the envelope of
\* a plain string
Echo == "abc"
EchoCipher == "c_abc"
NoneStr == "<None>"
Greeting == "Greeting from itchatmp!"
GetRequests == [echostr : {"", Echo, EchoCipher}, query : Queries,
                filterPass : BOOLEAN]
NoGet == [echostr |-> "", query |-> [msg_signature |-> "", signature |-> ""],
          filterPass |-> FALSE]

\* decrypt_msg(..., {'echostr': echostr}).get('echostr')
DecryptEcho(echostr) == IF echostr = EchoCipher THEN Echo ELSE NoneStr

\* verify_echostr, lines 62-79: in the msg_signature variant echostr is
\* replaced only when oauth succeeds and is returned as supplied otherwise;
\* in the plain variant a failed oauth gives None
verify_echostr(get) ==
    IF IsEncryptedVariant(get.query)
    THEN IF oauth(get.query.msg_signature) THEN DecryptEcho(get.echostr)
         ELSE get.echostr
    ELSE IF oauth(get.query.signature) THEN get.echostr ELSE NoneStr

\* get_fn, lines 28-37
get_fn(c, get) ==
    IF c.filterRequest /\ ~get.filterPass THEN Greeting
    ELSE IF verify_echostr(get) \in {"", NoneStr} THEN Greeting
         ELSE verify_echostr(get)

(* --------------------------- request slots ----------------------------- *)
IdleReq(isWsgi) ==
    [isWsgi |-> isWsgi,         \* construct_handler's binding
     pc |-> "idle",
     request |-> CHOOSE r \in Requests : TRUE,
     expired |-> FALSE,         \* SERVER_WAIT_TIME has passed since arrival
     timer |-> "none",          \* none / armed / removed / fired / crashed
     closed |-> FALSE,          \* post's local variable "closed" (WSGI)
     invoked |-> NoFn,          \* the handler post_fn called
     outcome |-> [kind |-> "none", reply |-> None],
     result |-> NoResult,       \* what post_fn returned or raised
     finished |-> FALSE,        \* RequestHandler._finished
     body |-> Empty,            \* the HTTP response body
     finishCalls |-> 0,         \* calls of self.finish / send_error
     closedBy |-> "none",       \* post / timer / framework
     sends |-> <<>>,            \* core.send calls
     expiredAtReturn |-> FALSE, \* history: deadline had passed when post_fn ended
     expiredAtResume |-> FALSE, \* history: ... when post went on after post_fn
     timerFirst |-> FALSE,      \* history: timer callback ran before post_fn ended
     afterRaise |-> FALSE,      \* history: the slot's previous handler call raised
     decoded |-> FALSE,         \* history: deconstruct_msg was called
     checked |-> FALSE,         \* history: verify_message was called
     method |-> "POST",         \* the request's method
     get |-> NoGet]             \* the GET request the slot answered

\* RequestHandler.finish(chunk): the first call writes the chunk and closes
\* the response; a later call raises RuntimeError and writes nothing.
Finish(rq, chunk, by) ==
    IF rq.finished
    THEN [rq EXCEPT !.finishCalls = @ + 1]
    ELSE [rq EXCEPT !.finished = TRUE,
                    !.body = IF chunk = None THEN Empty ELSE chunk,
                    !.finishCalls = @ + 1,
                    !.closedBy = by]

\* core.send called again when its result is falsy
Send_Retry(rq, rawReply, ok) ==
    LET call == [msg |-> rawReply, to |-> rawReply.ToUserName, ok |-> ok] IN
    [rq EXCEPT !.sends = IF ok THEN Append(@, call)
                         ELSE Append(Append(@, call), call)]

\* r = core.send(rawReply, rawReply.get('ToUserName', '')); a falsy r is
\* only logged
Send(rq, rawReply, ok) ==
    [rq EXCEPT !.sends = Append(@, [msg |-> rawReply,
                                    to |-> rawReply.ToUserName, ok |-> ok])]
(* ------------------------------ actions -------------------------------- *)
\* MainHandler.post up to the start of post_fn.  WSGI (lines 129-132):
\* closed = False, start the timer thread.  Event loop (lines 150-152):
\* ioLoop.call_later, threadPool.submit.  A slot takes its next request once
\* the previous request's timer is no longer pending.
PostArrive(q, request) ==
    /\ req[q].pc \in {"idle", "done"}
    /\ req[q].timer # "armed"
    /\ served < MaxRequests
    /\ req' = [req EXCEPT ![q] =
                 [IdleReq(req[q].isWsgi) EXCEPT !.pc = "postfn",
                                                !.request = request,
                                                !.closed = FALSE,
                                                !.timer = "armed",
                                                !.afterRaise =
                                                    req[q].outcome.kind = "raise"]]
    /\ served' = served + 1
    /\ UNCHANGED <<regVars, cfgVars>>

\* post_fn, lines 39-52: filter, decode, verify, look the handler up and
\* call it; or return (None, None)
PostFn(q) ==
    /\ req[q].pc = "postfn"
    /\ req' = [req EXCEPT ![q] =
                 IF Dispatches(core, req[q].request)
                 THEN [@ EXCEPT !.pc = "handler",
                                !.decoded = TRUE, !.checked = TRUE,
                                !.invoked = get_reply_fn(replyFnDict,
                                    Verified(core, req[q].request).MsgType)]
                 ELSE [@ EXCEPT !.pc = "returned",
                                !.decoded = ~Filtered(core, req[q].request),
                                !.checked = ~Filtered(core, req[q].request),
                                !.result = Ret(None, None),
                                !.expiredAtReturn = req[q].expired]]
    /\ UNCHANGED <<regVars, cfgVars, served>>

\* post_fn without the except clause of lines 53-54
PostFnResult_Propagates(config, request, msgDict, outcome) ==
    IF outcome.kind = "raise" THEN Exc("HandlerError")
    ELSE verify_reply(config, outcome.reply, msgDict, IsActualEncrypt(request))

\* post_fn, lines 52-59: the handler returns or raises; a raise is caught
\* and gives (None, None), a return goes through verify_reply
PostFnResult(config, request, msgDict, outcome) ==
    IF outcome.kind = "raise" THEN Ret(None, None)
    ELSE verify_reply(config, outcome.reply, msgDict, IsActualEncrypt(request))

HandlerDone(q, outcome) ==
    /\ req[q].pc = "handler"
    /\ ~req[q].request.hangs \/ req[q].invoked = NoOp
    /\ outcome \in HandlerOutcomes(req[q].invoked)
    /\ req' = [req EXCEPT ![q] =
                 [@ EXCEPT !.pc = "returned",
                           !.outcome = outcome,
                           !.result = PostFnResult(core.config, req[q].request,
                                          Verified(core, req[q].request), outcome),
                           !.expiredAtReturn = req[q].expired]]
    /\ UNCHANGED <<regVars, cfgVars, served>>

\* the rest of post in the WSGI binding, lines 134-141
ResumeWsgi(rq, ok) ==
    IF rq.closed
    THEN IF Truthy(rq.result.rawReply)
         THEN Send(rq, rq.result.rawReply, ok)
         ELSE rq
    ELSE Finish([rq EXCEPT !.closed = TRUE], rq.result.r, "post")

\* the rest of post in the event-loop binding, lines 153-160
RemoveTimeout(rq) ==
    [rq EXCEPT !.timer = IF @ = "armed" THEN "removed" ELSE @]

ResumeLoop(rq, ok) ==
    LET rq1 == RemoveTimeout(rq) IN
    IF ~rq1.expired
    THEN Finish(rq1, rq1.result.r, "post")
    ELSE IF Truthy(rq1.result.rawReply)
         THEN Send(rq1, rq1.result.rawReply, ok)
         ELSE rq1

\* post goes on after post_fn: with its result, or with the exception
\* post_fn raised, which leaves post at once
PostResume(q, ok) ==
    /\ req[q].pc = "returned"
    /\ req' = [req EXCEPT ![q] =
                 IF req[q].result.kind = "exc"
                 THEN [@ EXCEPT !.pc = "raised",
                                !.expiredAtResume = req[q].expired]
                 ELSE [(IF req[q].isWsgi THEN ResumeWsgi(@, ok)
                                         ELSE ResumeLoop(@, ok))
                          EXCEPT !.pc = "postDone",
                                 !.expiredAtResume = req[q].expired]]
    /\ UNCHANGED <<regVars, cfgVars, served>>

\* RequestHandler runs post: when post has returned and the response is
\* not finished it finishes it; when post raised it sends the error page
\* unless the response is already finished
Finalize(q) ==
    /\ req[q].pc \in {"postDone", "raised"}
    /\ req' = [req EXCEPT ![q] =
                 [(IF req[q].finished THEN @
                   ELSE Finish(@, IF req[q].pc = "raised" THEN ErrorPage ELSE None,
                               "framework"))
                     EXCEPT !.pc = "done"]]
    /\ UNCHANGED <<regVars, cfgVars, served>>

\* the timer.  WSGI (lines 122-124): after the sleep _timer_thread reads
\* "closed", which is no name of its scope or of the module: NameError ends
\* the thread.  Event loop (line 151): the callback calls self.finish().
TimerWsgi(rq) == [rq EXCEPT !.timer = "crashed"]
TimerLoop(rq) == [Finish(rq, None, "timer") EXCEPT !.timer = "fired"]

\* a timer callback bound to the handlers in flight instead of its own
TimerFire_Shared(q) ==
    /\ req[q].timer = "armed"
    /\ req[q].expired
    /\ req' = [p \in DOMAIN req |->
                 IF p = q
                 THEN [(IF req[q].isWsgi THEN TimerWsgi(req[q])
                                         ELSE TimerLoop(req[q]))
                          EXCEPT !.timerFirst = req[q].pc \in {"postfn", "handler"}]
                 ELSE IF ~req[q].isWsgi /\ req[p].pc \notin {"idle", "done"}
                      THEN Finish(req[p], None, "timer")
                      ELSE req[p]]
    /\ UNCHANGED <<regVars, cfgVars, served>>

TimerFire(q) ==
    /\ req[q].timer = "armed"
    /\ req[q].expired
    /\ req' = [req EXCEPT ![q] =
                 [(IF req[q].isWsgi THEN TimerWsgi(@) ELSE TimerLoop(@))
                     EXCEPT !.timerFirst = req[q].pc \in {"postfn", "handler"}]]
    /\ UNCHANGED <<regVars, cfgVars, served>>

\* SERVER_WAIT_TIME passes
Tick(q) ==
    /\ req[q].pc # "idle"
    /\ req[q].timer = "armed" \/ req[q].pc # "done"
    /\ ~req[q].expired
    /\ req' = [req EXCEPT ![q].expired = TRUE]
    /\ UNCHANGED <<regVars, cfgVars, served>>

\* msg_register(msgType)(fn)
MsgTypes ==
    [isList : {FALSE}, tag : AllTags, tags : {<<>>}] \cup
    [isList : {TRUE}, tag : {Absent},
     tags : UNION {[1..n -> AllTags] : n \in 0..MaxTags}]

MsgRegister(msgType, fn) ==
    /\ nregs < MaxRegs
    /\ LET res == msg_register(replyFnDict, msgType, fn) IN
       /\ replyFnDict' = res.dict
       /\ lastCall' = [msgType |-> msgType, fn |-> fn, raised |-> res.raised]
       /\ lastOk' = IF res.raised THEN lastOk
                    ELSE [t \in AllTags |->
                            IF \E i \in DOMAIN MsgTypeList(msgType) :
                                   MsgTypeList(msgType)[i] = t
                            THEN fn ELSE lastOk[t]]
    /\ nregs' = nregs + 1
    /\ UNCHANGED <<cfgVars, req, served>>

(* --------------------------- specifications ---------------------------- *)
NoCall == [msgType |-> [isList |-> TRUE, tag |-> Absent, tags |-> <<>>],
           fn |-> NoFn, raised |-> FALSE]
Configs == [config : [encryptMode : EncryptModes], filterRequest : BOOLEAN,
            atStorage : {"at0"}, userStorage : {"us0"},
            threadPoolNumber : {DefaultPool}]
DefaultCore == [config |-> [encryptMode |-> NORMAL], filterRequest |-> FALSE,
                atStorage |-> "at0", userStorage |-> "us0",
                threadPoolNumber |-> DefaultPool]

(* ---------------------------- update_config ---------------------------- *)
\* update_config's arguments: not given (the None default) or a value
NotGiven(v) == [given |-> FALSE, val |-> v]
Given(v) == [given |-> TRUE, val |-> v]
UpdateArgs ==
    [config : {NotGiven([encryptMode |-> NORMAL]),
               Given([encryptMode |-> NORMAL]), Given([encryptMode |-> SAFE])},
     atStorage : {NotGiven("at0"), Given("at0"), Given("at1")},
     userStorage : {NotGiven("us0"), Given("us0"), Given("us1")},
     filterRequest : {NotGiven(FALSE), Given(FALSE), Given(TRUE)},
     threadPoolNumber : {NotGiven(0), Given(0), Given(DefaultPool + 1)}]
NoArgs ==
    [config |-> NotGiven([encryptMode |-> NORMAL]),
     atStorage |-> NotGiven("at0"), userStorage |-> NotGiven("us0"),
     filterRequest |-> NotGiven(FALSE), threadPoolNumber |-> NotGiven(0)]

\* "x or self.x": the argument when it is truthy, else the old value; None
\* (not given), False and 0 are falsy
Or(arg, falsy, old) == IF arg.given /\ arg.val # falsy THEN arg.val ELSE old

\* update_config, lines 163-169; a config object and a storage object are
\* truthy, so "or" keeps them whenever they are given
update_config(c, a) ==
    [config |-> IF a.config.given THEN a.config.val ELSE c.config,
     atStorage |-> IF a.atStorage.given THEN a.atStorage.val ELSE c.atStorage,
     userStorage |-> IF a.userStorage.given THEN a.userStorage.val
                     ELSE c.userStorage,
     filterRequest |-> Or(a.filterRequest, FALSE, c.filterRequest),
     threadPoolNumber |-> Or(a.threadPoolNumber, 0, c.threadPoolNumber)]

UpdateConfig(a) ==
    /\ core' = update_config(core, a)
    /\ lastUpdate' = [called |-> TRUE, args |-> a, before |-> core]
    /\ UNCHANGED <<regVars, req, served>>

\* history: no update_config call yet
NoUpdate == [called |-> FALSE, args |-> NoArgs, before |-> DefaultCore]

\* registries the registration phase can leave behind
ServingRegistries ==
    {EmptyRegistry, [EmptyRegistry EXCEPT !["text"] = "h1"]}

\* serving: one handler slot of either binding, registration done
Init ==
    /\ replyFnDict \in ServingRegistries
    /\ lastCall = NoCall
    /\ lastOk = replyFnDict
    /\ nregs = 0
    /\ core \in Configs
    /\ \E w \in BOOLEAN : req = [q \in {1} |-> IdleReq(w)]
    /\ served = 0
    /\ lastUpdate = NoUpdate

Next ==
    \/ \E q \in DOMAIN req, request \in Requests : PostArrive(q, request)
    \/ \E q \in DOMAIN req : PostFn(q)
    \/ \E q \in DOMAIN req :
           \E outcome \in HandlerOutcomes(req[q].invoked) : HandlerDone(q, outcome)
    \/ \E q \in DOMAIN req, ok \in BOOLEAN : PostResume(q, ok)
    \/ \E q \in DOMAIN req : Finalize(q)
    \/ \E q \in DOMAIN req : TimerFire(q)
    \/ \E q \in DOMAIN req : Tick(q)

Spec == Init /\ [][Next]_vars

\* registration: msg_register calls on an empty registry
InitReg ==
    /\ replyFnDict = EmptyRegistry
    /\ lastCall = NoCall
    /\ lastOk = EmptyRegistry
    /\ nregs = 0
    /\ core = DefaultCore
    /\ req = [q \in {1} |-> IdleReq(FALSE)]
    /\ served = 0
    /\ lastUpdate = NoUpdate

NextReg == \E msgType \in MsgTypes, fn \in Handlers : MsgRegister(msgType, fn)

SpecReg == InitReg /\ [][NextReg]_vars
(* ------------------------------ claims --------------------------------- *)
Slots == DOMAIN req
Arrived(rq) == rq.pc # "idle"
IsDone(rq) == rq.pc = "done"
PostFnEnded(rq) == rq.pc \in {"returned", "postDone", "raised", "done"}
\* the handler returned a mapping whose MsgType is outbound-allowed
ValidReply(rq) ==
    /\ rq.outcome.kind = "return"
    /\ rq.outcome.reply.tag = "dict"
    /\ rq.outcome.reply.MsgType \in OUTCOME_MSG
\* the reply as verify_reply addresses it
Addressed(rq) ==
    [rq.outcome.reply EXCEPT !.ToUserName = User, !.FromUserName = Account]
InBody(rq) ==
    /\ rq.finished
    /\ rq.body.tag \in {"xml", "enc"}
    /\ rq.body.msg = Addressed(rq)
Pushed(rq) == \E i \in DOMAIN rq.sends : rq.sends[i].msg = Addressed(rq)
PushedOnce(rq) ==
    /\ Len(rq.sends) = 1
    /\ rq.sends[1].msg = rq.result.rawReply
    /\ rq.sends[1].to = rq.result.rawReply.ToUserName

\* C1: a request whose handler produced a valid reply ends with the reply
\* delivered by exactly one path: in the HTTP body or by core.send.
C1_ExactlyOneDelivery ==
    \A q \in Slots :
        IsDone(req[q]) /\ ValidReply(req[q])
            => (InBody(req[q]) /\ ~Pushed(req[q]))
               \/ (~InBody(req[q]) /\ Pushed(req[q]))

\* C2: finish is executed at most once per request, whatever the order of
\* the timer callback and the completion path.
C2_FinishAtMostOnce == \A q \in Slots : req[q].finishCalls <= 1

\* C3: once the timer has run while post_fn is still running the response
\* is closed with an empty body; and a request whose deadline passed before
\* post_fn returned a structured reply ends with an empty body and exactly
\* one core.send of that reply to its ToUserName.
C3_DeadlineFirst ==
    \A q \in Slots :
        /\ req[q].timer \in {"fired", "crashed"} /\ ~PostFnEnded(req[q])
              => req[q].finished /\ req[q].body = Empty
        /\ IsDone(req[q]) /\ req[q].expiredAtReturn
             /\ Truthy(req[q].result.rawReply)
              => req[q].body = Empty /\ PushedOnce(req[q])

\* what C4 promises of a request resolved on the synchronous path
SyncResolved(rq) ==
    /\ rq.isWsgi \/ rq.timer = "removed"
    /\ rq.closedBy # "timer" /\ rq.finishCalls <= 1
    /\ IsDone(rq) => /\ rq.finished
                     /\ rq.body = (IF rq.result.r = None THEN Empty
                                   ELSE rq.result.r)
    /\ rq.sends = <<>>

\* C4 as stated: post_fn returned before the deadline, so the timer is
\* cancelled and never finishes the response, the body is post_fn's body
\* and core.send is not called.
C4_PipelineFirst ==
    \A q \in Slots :
        /\ req[q].pc \in {"postDone", "done"}
        /\ req[q].result.kind = "ret"
        /\ ~req[q].expiredAtReturn
        => SyncResolved(req[q])

\* The synchronous path is taken whenever post goes on with post_fn's
\* result before the deadline has passed (the test of line 154).
SyncWhenResumedInTime ==
    \A q \in Slots :
        /\ req[q].pc \in {"postDone", "done"}
        /\ req[q].result.kind = "ret"
        /\ ~req[q].expiredAtResume
        => SyncResolved(req[q])

FairSpec ==
    /\ Spec
    /\ WF_vars(\E q \in DOMAIN req : PostFn(q))
    /\ WF_vars(\E q \in DOMAIN req :
                  \E outcome \in HandlerOutcomes(req[q].invoked) :
                      HandlerDone(q, outcome))
    /\ WF_vars(\E q \in DOMAIN req, ok \in BOOLEAN : PostResume(q, ok))
    /\ WF_vars(\E q \in DOMAIN req : Finalize(q))
    /\ WF_vars(\E q \in DOMAIN req : TimerFire(q))
    /\ WF_vars(\E q \in DOMAIN req : Tick(q))

\* C5: every POST request eventually has its HTTP response closed.
C5_EventuallyClosed ==
    \A q \in {1} : (req[q].pc = "postfn") ~> req[q].finished
\* both bindings side by side: slot 1 is served by the WSGI binding, slot 2
\* by the event-loop binding, with the same core and registry
PairRequests ==
    {r \in Requests : /\ r.body = [kind |-> "plain", msgType |-> "text"]
                      /\ r.query.msg_signature = ""
                      /\ r.query.signature \in {Good, Bad}
                      /\ r.filterPass /\ ~r.hangs}

InitPair ==
    /\ replyFnDict = [EmptyRegistry EXCEPT !["text"] = "h1"]
    /\ lastCall = NoCall
    /\ lastOk = replyFnDict
    /\ nregs = 0
    /\ core = DefaultCore
    /\ req = [q \in {1, 2} |-> IdleReq(q = 1)]
    /\ served = 0
    /\ lastUpdate = NoUpdate

NextPair ==
    \/ \E q \in DOMAIN req, request \in PairRequests : PostArrive(q, request)
    \/ \E q \in DOMAIN req : PostFn(q)
    \/ \E q \in DOMAIN req :
           \E outcome \in HandlerOutcomes(req[q].invoked) : HandlerDone(q, outcome)
    \/ \E q \in DOMAIN req, ok \in BOOLEAN : PostResume(q, ok)
    \/ \E q \in DOMAIN req : Finalize(q)
    \/ \E q \in DOMAIN req : TimerFire(q)
    \/ \E q \in DOMAIN req : Tick(q)

SpecPair == InitPair /\ [][NextPair]_vars

\* what the peer and the push API see of a request
ClosedAt(rq) == IF rq.closedBy = "timer" THEN "deadline" ELSE "completion"
SendSet(rq) == {[msg |-> rq.sends[i].msg, to |-> rq.sends[i].to] :
                  i \in DOMAIN rq.sends}
Visible(rq) == [body |-> rq.body, at |-> ClosedAt(rq), sends |-> SendSet(rq)]

\* C7: the two bindings, given the same request, the same handler result
\* and the same order of handler completion and deadline (the deadline on
\* the same side of both post_fn's end and post's continuation), show the
\* same HTTP body, the same closing time and the same core.send calls.
C7_BindingsAgree ==
    \A a, b \in Slots :
        /\ req[a].isWsgi /\ ~req[b].isWsgi
        /\ IsDone(req[a]) /\ IsDone(req[b])
        /\ req[a].timer # "armed" /\ req[b].timer # "armed"
        /\ req[a].request = req[b].request
        /\ req[a].outcome = req[b].outcome
        /\ req[a].expiredAtReturn = req[b].expiredAtReturn
        /\ req[a].expiredAtResume = req[a].expiredAtReturn
        /\ req[b].expiredAtResume = req[b].expiredAtReturn
        => Visible(req[a]) = Visible(req[b])

\* C8: get_reply_fn(tag) is the handler of the latest msg_register call that
\* named the tag and succeeded (the no-op when there is none).
C8_LastWriteWins ==
    \A t \in AllTags :
        get_reply_fn(replyFnDict, t) =
            (IF lastOk[t] = NoFn THEN NoOp ELSE lastOk[t])

\* the tags a call names
CallTags(call) ==
    {MsgTypeList(call.msgType)[i] : i \in DOMAIN MsgTypeList(call.msgType)}

\* C9: a msg_register call that names a tag outside INCOME_MSG raises in
\* the call itself, and the registry's keys are always tags of INCOME_MSG.
C9_UnknownTagRaises ==
    /\ Keys(replyFnDict) \subseteq INCOME_MSG
    /\ lastCall.raised <=> ~(CallTags(lastCall) \subseteq INCOME_MSG)

C9_Witness ==
    /\ lastCall.raised
    /\ lastCall.msgType.isList
    /\ lastCall.msgType.tags = <<"text", Bogus>>
    /\ replyFnDict["text"] = lastCall.fn

\* the message type post_fn dispatches on, when it gets that far
NoHandlerFor(rq) ==
    /\ SignatureValid(rq.request.query)
    /\ rq.request.body.msgType \notin Keys(replyFnDict)

\* C10: a POST with a valid signature whose MsgType has no registered
\* handler calls only the no-op, raises nothing, ends with an empty body
\* and makes no core.send call, whichever of post_fn and timer is first.
C10_NoHandlerNoReply ==
    \A q \in Slots :
        Arrived(req[q]) /\ NoHandlerFor(req[q])
        => /\ req[q].invoked \in {NoFn, NoOp}
           /\ req[q].result.kind # "exc"
           /\ req[q].pc # "raised"
           /\ req[q].body = Empty
           /\ req[q].sends = <<>>
           /\ IsDone(req[q]) => req[q].finished /\ req[q].finishCalls = 1

C10_Witness ==
    \E q \in Slots :
        /\ IsDone(req[q]) /\ NoHandlerFor(req[q])
        /\ ~req[q].isWsgi
        /\ req[q].invoked = NoOp
        /\ req[q].request.body.msgType = "text"
        /\ req[q].timerFirst /\ req[q].closedBy = "timer"

\* C11: a POST with a valid signature whose handler returns an outbound-
\* allowed reply, with post going on before the deadline, ends with the
\* reply as the HTTP body, addressed to the inbound sender (ToUserName)
\* from the inbound recipient (FromUserName) whatever the handler wrote.
C11_AddressedReplyInBody ==
    \A q \in Slots :
        /\ IsDone(req[q]) /\ SignatureValid(req[q].request.query)
        /\ ValidReply(req[q])
        /\ ~req[q].expiredAtResume
        => /\ req[q].body.tag \in {"xml", "enc"}
           /\ req[q].body.msg.ToUserName = User
           /\ req[q].body.msg.FromUserName = Account
           /\ req[q].body.msg.MsgType = req[q].outcome.reply.MsgType

\* C12: a handler that raises is caught in post_fn, which returns
\* (None, None): post never sees an exception, the body is empty, core.send
\* is not called, and the slot takes later requests as before.
C12_HandlerRaiseContained ==
    \A q \in Slots :
        req[q].outcome.kind = "raise"
        => /\ req[q].result = Ret(None, None)
           /\ req[q].pc # "raised"
           /\ req[q].body = Empty
           /\ req[q].sends = <<>>
           /\ IsDone(req[q]) => req[q].finished /\ req[q].finishCalls = 1
           /\ IsDone(req[q]) /\ req[q].timer # "armed" /\ served < MaxRequests
                => ENABLED (\E request \in Requests : PostArrive(q, request))

C12_Witness ==
    \E q \in Slots :
        /\ req[q].afterRaise
        /\ IsDone(req[q]) /\ ValidReply(req[q]) /\ InBody(req[q])

(* ---------------------- configuration and handshake -------------------- *)
\* MainHandler.get, lines 126-127 and 146-147: self.finish(get_fn(self))
Get(q, get) ==
    /\ req[q].pc \in {"idle", "done"}
    /\ req[q].timer # "armed"
    /\ req' = [req EXCEPT ![q] =
                 [IdleReq(req[q].isWsgi) EXCEPT
                     !.method = "GET", !.get = get, !.pc = "done",
                     !.finished = TRUE, !.finishCalls = 1, !.closedBy = "get",
                     !.body = [tag |-> "text", text |-> get_fn(core, get)]]]
    /\ UNCHANGED <<regVars, cfgVars, served>>

InitCfg ==
    /\ replyFnDict = EmptyRegistry
    /\ lastCall = NoCall
    /\ lastOk = EmptyRegistry
    /\ nregs = 0
    /\ core \in Configs
    /\ \E w \in BOOLEAN : req = [q \in {1} |-> IdleReq(w)]
    /\ served = 0
    /\ lastUpdate = NoUpdate

NextCfg == \E q \in DOMAIN req, get \in GetRequests : Get(q, get)

SpecCfg == InitCfg /\ [][NextCfg]_vars

\* C13: a GET answered after a failed signature check or a rejecting
\* filter carries the greeting and never the supplied echostr; a GET whose
\* signature check succeeds (and passes the filter) with a non-empty
\* verified echo carries that echo: echostr itself in the plain variant,
\* the decrypted echostr in the msg_signature variant.
C13_HandshakeEcho ==
    \A q \in Slots :
        req[q].method = "GET" /\ IsDone(req[q])
        => LET get == req[q].get
               rejected == \/ core.filterRequest /\ ~get.filterPass
                           \/ ~SignatureValid(get.query)
               echo == IF IsEncryptedVariant(get.query)
                       THEN DecryptEcho(get.echostr) ELSE get.echostr
           IN  /\ rejected => /\ req[q].body.text = Greeting
                              /\ req[q].body.text # get.echostr
               /\ ~rejected /\ echo \notin {"", NoneStr}
                    => req[q].body.text = echo

\* C14: for a valid handler reply post_fn returns a (body, structured
\* reply) pair without raising, and the body is the encrypted form exactly
\* when the request body carried an Encrypt field, whatever the configured
\* encryptMode; otherwise it is the plain serialization.
C14_EncryptedIffEnvelope ==
    \A q \in Slots :
        PostFnEnded(req[q]) /\ ValidReply(req[q])
        => /\ req[q].result.kind = "ret"
           /\ req[q].result.rawReply = Addressed(req[q])
           /\ req[q].result.r.tag =
                  (IF IsActualEncrypt(req[q].request) THEN "enc" ELSE "xml")

\* C15: a POST whose source the configured allow-list filter rejects: the
\* body is not decoded, the signature is not checked, no handler is
\* called, post_fn returns (None, None), the HTTP body is empty and
\* core.send is not called.
C15_FilteredDropped ==
    \A q \in Slots :
        /\ Arrived(req[q]) /\ req[q].method = "POST"
        /\ core.filterRequest /\ ~req[q].request.filterPass
        => /\ ~req[q].decoded /\ ~req[q].checked
           /\ req[q].invoked = NoFn
           /\ req[q].pc # "handler"
           /\ PostFnEnded(req[q]) => req[q].result = Ret(None, None)
           /\ req[q].body = Empty
           /\ req[q].sends = <<>>

C15_Witness ==
    \E q \in Slots :
        /\ IsDone(req[q]) /\ req[q].finished /\ req[q].method = "POST"
        /\ core.filterRequest /\ ~req[q].request.filterPass
        /\ SignatureValid(req[q].request.query)
        /\ req[q].request.body.msgType = "text"
        /\ replyFnDict["text"] = "h1"
        /\ req[q].expiredAtReturn

\* C16: core.send is called at most once per request, and only with the
\* structured reply post_fn returned; whatever it returns, post ends
\* normally (nothing is raised) and the response is finished once, with an
\* empty body.
C16_PushAtMostOnce ==
    \A q \in Slots :
        /\ Len(req[q].sends) <= 1
        /\ req[q].sends # <<>>
             => /\ req[q].pc \in {"postDone", "done"}
                /\ req[q].result.kind = "ret"
                /\ req[q].sends[1].msg = req[q].result.rawReply
                /\ req[q].finishCalls <= 1
                /\ IsDone(req[q]) => /\ req[q].finished
                                     /\ req[q].finishCalls = 1
                                     /\ req[q].body = Empty

C16_Witness ==
    \E q \in Slots :
        /\ IsDone(req[q]) /\ req[q].closedBy = "timer"
        /\ Len(req[q].sends) = 1 /\ ~req[q].sends[1].ok

\* C17: a handler result that is no valid reply (None, not a mapping, or a
\* MsgType outside OUTCOME_MSG): post_fn returns (None, None) without
\* raising, the HTTP body is empty and core.send is not called, before and
\* after the deadline.
C17_InvalidReplyDropped ==
    \A q \in Slots :
        req[q].outcome.kind = "return" /\ ~ValidReply(req[q])
        => /\ req[q].result = Ret(None, None)
           /\ req[q].pc # "raised"
           /\ req[q].body = Empty
           /\ req[q].sends = <<>>
           /\ IsDone(req[q]) => req[q].finished /\ req[q].finishCalls = 1

C17_Witness ==
    \E q \in Slots :
        /\ IsDone(req[q]) /\ ~req[q].isWsgi
        /\ req[q].invoked = "h1"
        /\ req[q].outcome.kind = "return"
        /\ req[q].outcome.reply.tag = "dict"
        /\ req[q].outcome.reply.MsgType = Bogus
        /\ req[q].expiredAtResume /\ req[q].closedBy = "timer"

\* C18: a msg_register call that raises because one of its tags is unknown
\* leaves the registry as it was before the call.
C18_FailedCallBindsNothing ==
    [][nregs' # nregs /\ lastCall'.raised => replyFnDict' = replyFnDict]_vars

(* ------------------------- concurrent requests ------------------------- *)
\* two requests in flight on the same binding, each with its own handler
\* instance, timer and (WSGI) closed flag
InitConc ==
    /\ replyFnDict = [EmptyRegistry EXCEPT !["text"] = "h1"]
    /\ lastCall = NoCall
    /\ lastOk = replyFnDict
    /\ nregs = 0
    /\ core = DefaultCore
    /\ \E w \in BOOLEAN : req = [q \in {1, 2} |-> IdleReq(w)]
    /\ served = 0
    /\ lastUpdate = NoUpdate

SpecConc == InitConc /\ [][NextPair]_vars

\* what a request's own timer and own pipeline account for
OwnResolution(rq) ==
    /\ rq.closedBy = "timer" => rq.timer = "fired" /\ rq.expired
    /\ rq.closedBy = "post"
         => /\ rq.pc \in {"postDone", "done"}
            /\ rq.body = (IF rq.result.r = None THEN Empty ELSE rq.result.r)
    /\ rq.finished /\ rq.body.tag \in {"xml", "enc"}
         => rq.body.msg = Addressed(rq)
    /\ \A i \in DOMAIN rq.sends :
           /\ rq.sends[i].msg = rq.result.rawReply
           /\ rq.expiredAtResume

InitUpd ==
    /\ replyFnDict = EmptyRegistry
    /\ lastCall = NoCall
    /\ lastOk = EmptyRegistry
    /\ nregs = 0
    /\ core = DefaultCore
    /\ req = [q \in {1} |-> IdleReq(FALSE)]
    /\ served = 0
    /\ lastUpdate = NoUpdate

NextUpd == \E a \in UpdateArgs : UpdateConfig(a)

SpecUpd == InitUpd /\ [][NextUpd]_vars

\* the core the claim expects after update_config(a) on core c
Replaced(c, a) ==
    [config |-> IF a.config.given THEN a.config.val ELSE c.config,
     atStorage |-> IF a.atStorage.given THEN a.atStorage.val ELSE c.atStorage,
     userStorage |-> IF a.userStorage.given THEN a.userStorage.val
                     ELSE c.userStorage,
     filterRequest |-> IF a.filterRequest.given THEN a.filterRequest.val
                       ELSE c.filterRequest,
     threadPoolNumber |-> IF a.threadPoolNumber.given
                          THEN a.threadPoolNumber.val ELSE c.threadPoolNumber]

\* C20: after update_config every field a value was supplied for holds
\* that value and every other field is as before; in particular
\* update_config(filterRequest=False) switches an allow-list toggle off.
C20_UpdateReplaces ==
    lastUpdate.called => core = Replaced(lastUpdate.before, lastUpdate.args)
====
